---- MODULE Spec2Model ----
(***************************************************************************)
(* Model of the weremac G3-PLC host driver: the orchestration layer of     *)
(* src/hybrid/main.c (option parsing, driver set-up, signal masking, the   *)
(* two I/O threads, shutdown) and the single-shot send mode of             *)
(* src/g3-plc/send-mode.c.  The protocol engine behind g3plc.h             *)
(* (hybrid_init, g3plc_send, uart_read_loop, g3plc_uart_putc,              *)
(* hybrid_recv_frame) has no body in the sources; it is modelled from its  *)
(* documented contract.                                                    *)
(***************************************************************************)
EXTENDS Integers, Sequences, FiniteSets, TLC

(* ------------------------------ bounds --------------------------------- *)

\* Number of options getopt_long() returns before it returns -1.
MaxOpts == 2

(* --------------------------- option strings ---------------------------- *)

\* An option argument is a sequence of characters; a character is its digit
\* value (0..15 for 0-9a-f), and Z stands for a character that is no digit.
Z == 99

ThreadIds == {"main", "writer", "reader"}
Tasks == {"writer", "reader"}

HelloWorld == <<"H", "e", "l", "l", "o", " ", "W", "o", "r", "l", "d", "!">>

RECURSIVE strtol_acc(_, _, _)
strtol_acc(s, i, acc) ==
  IF i > Len(s) \/ s[i] > 15 THEN acc
  ELSE strtol_acc(s, i + 1, acc * 16 + s[i])

\* strtol(s, NULL, 16): the value of the longest leading run of hex digits
\* (0 when there is none); what follows it is ignored.
strtol16(s) == strtol_acc(s, 1, 0)

\* Assignment of a long to a 16 bit short address.
to_uint16(v) == v % 65536

RECURSIVE dec_acc(_, _, _)
dec_acc(s, i, acc) ==
  IF i > Len(s) THEN acc ELSE dec_acc(s, i + 1, acc * 10 + s[i])

\* xatou(s, &err): an unsigned decimal number, err set when s is not one.
xatou(s) ==
  IF s = <<>> \/ \E i \in 1..Len(s) : s[i] > 9
  THEN [val |-> 0, err |-> 1]
  ELSE [val |-> dec_acc(s, 1, 0), err |-> 0]

\* rpi_gpio_check(n): n names a GPIO line of the board.
rpi_gpio_check(n) == n \in 0..27

\* baud(s): the speed_t of a baud rate, fatal when s is no known rate.
KnownBauds == {9600, 19200}
baud(s) ==
  LET r == xatou(s) IN
  IF r.err = 0 /\ r.val \in KnownBauds
  THEN [val |-> r.val, err |-> 0] ELSE [val |-> 0, err |-> 1]

(* ------------------------------- state --------------------------------- *)

VARIABLES
  pc,            \* position of main and of the two threads
  ctx,           \* struct context
  hybrid,        \* struct hybrid_config
  display_time,  \* send-mode.c static
  message,       \* send-mode.c static
  speed,         \* main's speed
  exit_status,   \* main's exit_status
  exited,        \* the process has ended
  exit_code,     \* the status it ended with
  nopts,         \* options returned by getopt_long in the loop so far,
                 \* cleared when the loop is left at its end
  config_error,  \* an option value was malformed
  sigmask,       \* per thread: SIGALRM is blocked
  hw,            \* set-up calls made so far
  init_status,   \* <<err>> once hybrid_init has returned err, <<>> before
  init_conf,     \* <<the configuration hybrid_init was given>>, <<>> before
  create_err,    \* start_io_threads' err
  create_failed, \* the tasks whose pthread_create() failed
  destroy_at,    \* <<the tasks' positions when destroy was called>>
  send_log,      \* the g3plc_send calls made: caller, dst, payload, size
  attempts,      \* transmissions of the send in flight
  ret,           \* start's ret
  rx_state,      \* the reassembler: IDLE, ACCUMULATING or FRAME_READY
  ready_frames,  \* reassembled frames not yet dispatched
  cb_count,      \* callbacks fired for the frame in dispatch
  opt_c,         \* <<c>>: the option getopt_long returned last, <<>> for -1
  handled,       \* who took that option: "mode", "common" or "none"
  cli,           \* what the command line gave: -i, -a, the last -d and -m
  argc,          \* <<argc>> after argc -= optind, <<>> before
  timer,         \* the retransmission timer: "off" or "armed"
  sigalrm,       \* a SIGALRM is pending for the process
  intercepted    \* a SIGALRM went to a thread that had it unblocked

vars == <<pc, ctx, hybrid, display_time, message, speed, exit_status, exited,
          exit_code, nopts, config_error, sigmask, hw, init_status, init_conf,
          create_err, create_failed, destroy_at, send_log, attempts, ret,
          rx_state, ready_frames, cb_count, opt_c, handled, cli, argc, timer,
          sigalrm, intercepted>>

cfg_vars == <<ctx, hybrid, display_time, message, speed>>
timer_vars == <<timer, sigalrm, intercepted>>
send_vars == <<send_log, attempts, ret, timer_vars>>
rx_vars == <<rx_state, ready_frames, cb_count>>
create_vars == <<create_err, create_failed>>
setup_vars == <<hw, init_status, init_conf, create_vars, destroy_at>>
parse_vars == <<nopts, opt_c, handled, cli, argc>>

G3PLC_INVALID == "G3PLC_INVALID"
G3PLC_NOACK == "G3PLC_NOACK"

Init ==
  /\ pc = [t \in ThreadIds |-> IF t = "main" THEN "getopt" ELSE "none"]
  /\ ctx = [verbose |-> 0, dst_mac |-> 65535, gpio_reset |-> -1]
  /\ hybrid = [cb_recv |-> "NULL", recv_frame |-> "hybrid_recv_frame",
               retrans |-> 5, timeout |-> 1000000, flags |-> {},
               mac_address |-> 0]
  /\ display_time = 0
  /\ message = HelloWorld
  /\ speed = 9600
  /\ exit_status = "EXIT_FAILURE"
  /\ exited = FALSE
  /\ exit_code = "none"
  /\ nopts = 0
  /\ config_error = FALSE
  /\ sigmask = [t \in ThreadIds |-> FALSE]
  /\ hw = {}
  /\ init_status = <<>>
  /\ init_conf = <<>>
  /\ create_err = 0
  /\ create_failed = {}
  /\ destroy_at = <<>>
  /\ send_log = <<>>
  /\ attempts = 0
  /\ ret = "none"
  /\ rx_state = "IDLE"
  /\ ready_frames = 0
  /\ cb_count = 0
  /\ opt_c = <<>>
  /\ handled = "none"
  /\ cli = [i |-> FALSE, a |-> FALSE, d |-> <<>>, m |-> <<>>]
  /\ argc = <<>>
  /\ timer = "off"
  /\ sigalrm = FALSE
  /\ intercepted = FALSE

\* errx()/err(): the process ends at once with EXIT_FAILURE.
Fatal ==
  /\ exited' = TRUE
  /\ exit_code' = "EXIT_FAILURE"
  /\ pc' = [pc EXCEPT !["main"] = "exited"]

(* --------------------------- option parsing ---------------------------- *)

ModeOptChars == {"T", "m"}
CommonOptChars == {"h", "V", "v", "i", "a", "t", "r", "B", "d", "RESET",
                   "IRQ", "CTS", "?"}
OptChars == CommonOptChars \cup ModeOptChars

HexArgs == {<<1, 2, 3, 4>>, <<Z, Z>>}
DecArgs == {<<0>>, <<3>>, <<Z>>}
TimeoutArgs == {<<3>>, <<Z>>}
GpioArgs == {<<4>>, <<9, 9>>, <<Z>>}
BaudArgs == {<<9, 6, 0, 0>>, <<7>>}
MsgArgs == {<<"H", "i">>}

\* The arguments getopt_long() can hand over with option c.
OptArgs(c) ==
  CASE c = "d" -> HexArgs
    [] c = "t" -> TimeoutArgs
    [] c = "r" -> DecArgs
    [] c \in {"RESET", "IRQ", "CTS"} -> GpioArgs
    [] c = "B" -> BaudArgs
    [] c = "m" -> MsgArgs
    [] OTHER -> {<<>>}

\* A parse_option() that takes no option at all.
parse_option_none(c) == FALSE

\* send-mode.c parse_option(): whether the mode takes option c.
parse_option(c) == c \in ModeOptChars

mode_display_time(c, old) == IF c = "T" THEN 1 ELSE old
mode_message(c, arg, old) == IF c = "m" THEN arg ELSE old

\* The switch of main's option loop: the context after option c.
common_ctx(c, arg, old) ==
  CASE c = "RESET" -> [old EXCEPT !.gpio_reset = xatou(arg).val]
    [] c = "v" -> [old EXCEPT !.verbose = 1]
    [] c = "d" -> [old EXCEPT !.dst_mac = to_uint16(strtol16(arg))]
    [] OTHER -> old

\* The switch with the flags of -i and -a exchanged.
common_hybrid_swapped(c, arg, old) ==
  CASE c = "i" -> [old EXCEPT !.flags = @ \cup {G3PLC_NOACK}]
    [] c = "a" -> [old EXCEPT !.flags = @ \cup {G3PLC_INVALID}]
    [] c = "t" -> [old EXCEPT !.timeout = xatou(arg).val]
    [] c = "r" -> [old EXCEPT !.retrans = xatou(arg).val]
    [] OTHER -> old

\* The switch of main's option loop: the driver configuration after c.
common_hybrid(c, arg, old) ==
  CASE c = "i" -> [old EXCEPT !.flags = @ \cup {G3PLC_INVALID}]
    [] c = "a" -> [old EXCEPT !.flags = @ \cup {G3PLC_NOACK}]
    [] c = "t" -> [old EXCEPT !.timeout = xatou(arg).val]
    [] c = "r" -> [old EXCEPT !.retrans = xatou(arg).val]
    [] OTHER -> old

\* The errx() calls without the test of -r against 1.
common_fatal_no_minimum(c, arg) ==
  CASE c = "RESET" -> xatou(arg).err # 0 \/ ~rpi_gpio_check(xatou(arg).val)
    [] c = "t" -> xatou(arg).err # 0
    [] c = "r" -> xatou(arg).err # 0
    [] c = "B" -> baud(arg).err # 0
    [] OTHER -> FALSE

\* The switch of main's option loop: the errx() calls.
common_fatal(c, arg) ==
  CASE c = "RESET" -> xatou(arg).err # 0 \/ ~rpi_gpio_check(xatou(arg).val)
    [] c = "t" -> xatou(arg).err # 0
    [] c = "r" -> xatou(arg).err # 0 \/ xatou(arg).val < 1
    [] c = "B" -> baud(arg).err # 0
    [] OTHER -> FALSE

\* A switch that sets the success status in every case that leaves the loop.
common_exit_status_success(c, old) == "EXIT_SUCCESS"

\* The cases that leave the loop through EXIT, and the status they set.
common_goto_exit(c) == c \notin {"RESET", "v", "i", "a", "d", "t", "r", "B"}
common_exit_status(c, old) ==
  IF c \in {"V", "h"} THEN "EXIT_SUCCESS" ELSE old

\* A value that is not what its option takes: not a hexadecimal number for
\* -d, not an unsigned number for -t, -r and --reset, below 1 for -r, no
\* GPIO line for --reset, no baud rate for -B.
Malformed(c, arg) ==
  CASE c = "d" -> arg = <<>> \/ \E i \in 1..Len(arg) : arg[i] > 15
    [] c = "t" -> xatou(arg).err # 0
    [] c = "r" -> xatou(arg).err # 0 \/ xatou(arg).val < 1
    [] c = "RESET" -> xatou(arg).err # 0 \/ ~rpi_gpio_check(xatou(arg).val)
    [] c = "B" -> baud(arg).err # 0
    [] OTHER -> FALSE

\* One turn of the option loop with getopt_long() returning c.
Option(c, arg) ==
  /\ nopts' = nopts + 1
  /\ opt_c' = <<c>>
  /\ handled' = IF parse_option(c) THEN "mode" ELSE "common"
  /\ cli' = CASE c = "i" -> [cli EXCEPT !.i = TRUE]
             [] c = "a" -> [cli EXCEPT !.a = TRUE]
             [] c = "d" -> [cli EXCEPT !.d = <<arg>>]
             [] c = "m" -> [cli EXCEPT !.m = <<arg>>]
             [] OTHER -> cli
  /\ UNCHANGED argc
  /\ IF parse_option(c)
     THEN /\ display_time' = mode_display_time(c, display_time)
          /\ message' = mode_message(c, arg, message)
          /\ UNCHANGED <<pc, ctx, hybrid, speed, exit_status, exited,
                         exit_code, config_error>>
     ELSE /\ ctx' = common_ctx(c, arg, ctx)
          /\ hybrid' = common_hybrid(c, arg, hybrid)
          /\ speed' = IF c = "B" /\ baud(arg).err = 0
                      THEN baud(arg).val ELSE speed
          /\ config_error' = (config_error \/ Malformed(c, arg))
          /\ UNCHANGED <<display_time, message>>
          /\ IF common_fatal(c, arg)
             THEN Fatal /\ UNCHANGED exit_status
             ELSE IF common_goto_exit(c)
             THEN /\ exit_status' = common_exit_status(c, exit_status)
                  /\ pc' = [pc EXCEPT !["main"] = "EXIT"]
                  /\ UNCHANGED <<exited, exit_code>>
             ELSE UNCHANGED <<pc, exit_status, exited, exit_code>>

\* main: while(1) { c = getopt_long(...); ... }
GetOpt ==
  /\ pc["main"] = "getopt" /\ ~exited
  /\ nopts < MaxOpts
  /\ \E c \in OptChars : \E arg \in OptArgs(c) : Option(c, arg)
  /\ UNCHANGED <<sigmask, setup_vars, send_vars, rx_vars>>

\* main with hybrid_init() called before the mode's init().
main_body_init_first ==
  <<"initialize_driver", "hybrid_init", "mode_init", "block_signals",
    "sio_block_signals", "create_output", "create_input", "join", "destroy",
    "EXIT">>

\* main with the mode's init() called between the two pthread_create().
main_body_init_late ==
  <<"initialize_driver", "block_signals", "hybrid_init",
    "sio_block_signals", "create_output", "mode_init", "create_input", "join",
    "destroy", "EXIT">>

\* main with both thread_block_signals() calls made after the writer was
\* created.
main_body_block_late ==
  <<"initialize_driver", "mode_init", "hybrid_init", "create_output",
    "block_signals", "sio_block_signals", "create_input", "join", "destroy",
    "EXIT">>

\* The statements of main after the positional arguments, in program order;
\* the four from sio_block_signals to join are start_io_threads().
main_body ==
  <<"initialize_driver", "mode_init", "block_signals", "hybrid_init",
    "sio_block_signals", "create_output", "create_input", "join", "destroy",
    "EXIT">>

\* The statement after statement l.
After(l) ==
  main_body[(CHOOSE i \in 1..Len(main_body) : main_body[i] = l) + 1]

Goto(t, l) == pc' = [pc EXCEPT ![t] = l]

\* main: getopt_long() returns -1, then the positional arguments: with two
\* of them the source address and the device are taken, else help and EXIT.
PositionalArgs ==
  {<<>>, <<<<0, 0, 0, 1>>>>, <<<<0, 0, 0, 1>>, <<"d", "e", "v">>>>,
   <<<<0, 0, 0, 1>>, <<"d", "e", "v">>, <<"x">>>>}

EndOfOptions ==
  /\ pc["main"] = "getopt" /\ ~exited
  /\ \E argv \in PositionalArgs :
       /\ argc' = <<Len(argv)>>
       /\ IF Len(argv) # 2
          THEN /\ pc' = [pc EXCEPT !["main"] = "EXIT"]
               /\ UNCHANGED <<hybrid, exit_status>>
          ELSE /\ hybrid' = [hybrid EXCEPT
                               !.mac_address = to_uint16(strtol16(argv[1]))]
               /\ exit_status' = "EXIT_SUCCESS"
               /\ pc' = [pc EXCEPT !["main"] = main_body[1]]
  /\ nopts' = 0
  /\ opt_c' = <<>>
  /\ handled' = "none"
  /\ UNCHANGED cli
  /\ UNCHANGED <<ctx, display_time, message, speed, exited, exit_code,
                 config_error, sigmask, setup_vars, send_vars, rx_vars>>

(* ------------------------------ set-up --------------------------------- *)

\* configure_gpio(): the GPIO is touched when a reset line was given.
configure_gpio(c) == IF c.gpio_reset < 0 THEN {} ELSE {"rpi_gpio_init"}

\* initialize_driver(): serial_init() then configure_gpio().
InitializeDriver ==
  /\ pc["main"] = "initialize_driver" /\ ~exited
  /\ hw' = hw \cup {"serial_init"} \cup configure_gpio(ctx)
  /\ Goto("main", After("initialize_driver"))
  /\ UNCHANGED <<cfg_vars, exit_status, exited, exit_code, parse_vars,
                 config_error, sigmask, init_status, init_conf, create_vars,
                 destroy_at, send_vars, rx_vars>>

\* An init() that sets the flags as well.
mode_init_flags(conf) == [conf EXCEPT !.cb_recv = "cb_recv", !.flags = {}]

\* send-mode.c init(): installs the receive callback.
mode_init(conf) == [conf EXCEPT !.cb_recv = "cb_recv"]

ModeInit ==
  /\ pc["main"] = "mode_init" /\ ~exited
  /\ hybrid' = mode_init(hybrid)
  /\ hw' = hw \cup {"mode_init"}
  /\ Goto("main", After("mode_init"))
  /\ UNCHANGED <<ctx, display_time, message, speed, exit_status, exited,
                 exit_code, parse_vars, config_error, sigmask, init_status,
                 init_conf, create_vars, destroy_at, send_vars, rx_vars>>

\* A thread_block_signals() that leaves the mask as it is.
thread_block_signals_noop(t) == sigmask

\* thread_block_signals() called by thread t: pthread_sigmask(SIG_BLOCK,
\* {SIGALRM}): with a valid `how` the call has no error, so err() is dead.
thread_block_signals(t) == [sigmask EXCEPT ![t] = TRUE]

\* main: thread_block_signals() before hybrid_init().
BlockSignals ==
  /\ pc["main"] = "block_signals" /\ ~exited
  /\ sigmask' = thread_block_signals("main")
  /\ Goto("main", After("block_signals"))
  /\ UNCHANGED <<cfg_vars, exit_status, exited, exit_code, parse_vars,
                 config_error, setup_vars, send_vars, rx_vars>>

\* The statuses hybrid_init() can return: 0 is success, the rest are errors.
InitStatuses == {-1, 0, 1}

\* main: if(err < 0) errx(...)
init_failed(err) == err < 0

HybridInit ==
  /\ pc["main"] = "hybrid_init" /\ ~exited
  /\ \E err \in InitStatuses :
       /\ init_status' = <<err>>
       /\ init_conf' = <<hybrid>>
       /\ hw' = hw \cup {"hybrid_init"}
       /\ IF init_failed(err)
          THEN Fatal
          ELSE Goto("main", After("hybrid_init"))
               /\ UNCHANGED <<exited, exit_code>>
  /\ UNCHANGED <<cfg_vars, exit_status, parse_vars, config_error, sigmask,
                 create_vars, destroy_at, send_vars, rx_vars>>

(* -------------------------- start_io_threads --------------------------- *)

\* start_io_threads: thread_block_signals() before the two pthread_create().
SioBlockSignals ==
  /\ pc["main"] = "sio_block_signals" /\ ~exited
  /\ sigmask' = thread_block_signals("main")
  /\ Goto("main", After("sio_block_signals"))
  /\ UNCHANGED <<cfg_vars, exit_status, exited, exit_code, parse_vars,
                 config_error, setup_vars, send_vars, rx_vars>>

\* Where a new thread starts: pthread_create's start routine.
output_thread_start_reader == "in_block_signals"
output_thread_start == "start"
input_thread_start_start == "start"
input_thread_start == "in_block_signals"

\* pthread_create() of thread t: on success the new thread runs from
\* `entry` with its creator's signal mask and 0 is returned, on failure an
\* error number.  `next` is where main goes on.
PthreadCreate(t, entry, ok, next) ==
  IF ok
  THEN /\ pc' = [pc EXCEPT ![t] = entry, !["main"] = next]
       /\ sigmask' = [sigmask EXCEPT ![t] = sigmask["main"]]
  ELSE /\ pc' = [pc EXCEPT !["main"] = next]
       /\ UNCHANGED sigmask

\* err = pthread_create(&output_thread, NULL, output_thread_func, &data);
CreateOutput ==
  /\ pc["main"] = "create_output" /\ ~exited
  /\ \E ok \in BOOLEAN :
       /\ PthreadCreate("writer", output_thread_start, ok,
                        After("create_output"))
       /\ create_err' = IF ok THEN 0 ELSE 1
       /\ create_failed' = IF ok THEN {} ELSE {"writer"}
  /\ UNCHANGED <<cfg_vars, exit_status, exited, exit_code, parse_vars,
                 config_error, hw, init_status, init_conf, destroy_at,
                 send_vars, rx_vars>>

\* An err that is assigned the second status instead of being ORed with it.
create_input_err_assigned(err, ok) == IF ok THEN 0 ELSE 1

\* err |= pthread_create(...): err after the second pthread_create().
create_input_err(err, ok) == IF ok THEN err ELSE 1

\* err |= pthread_create(&input_thread, NULL, input_thread_func, &data);
\* if(err) errx(EXIT_FAILURE, "cannot create threads");
CreateInput ==
  /\ pc["main"] = "create_input" /\ ~exited
  /\ \E ok \in BOOLEAN :
       /\ create_err' = create_input_err(create_err, ok)
       /\ create_failed' = IF ok THEN create_failed
                                 ELSE create_failed \cup {"reader"}
       /\ IF create_err' # 0
          THEN /\ PthreadCreate("reader", input_thread_start, ok, "exited")
               /\ exited' = TRUE
               /\ exit_code' = "EXIT_FAILURE"
          ELSE /\ PthreadCreate("reader", input_thread_start, ok,
                                After("create_input"))
               /\ UNCHANGED <<exited, exit_code>>
  /\ UNCHANGED <<cfg_vars, exit_status, parse_vars, config_error, hw,
                 init_status, init_conf, destroy_at, send_vars, rx_vars>>

\* The threads start_io_threads() joins.
join_targets_both == {"writer", "reader"}
join_targets == {"writer"}

\* What the join makes of main's exit status: pthread_join(output_thread,
\* NULL) drops the thread's result, and the thread returns NULL anyway.
join_status_ret(r, status) ==
  IF r = "SEND_SUCCESS" THEN status ELSE "EXIT_FAILURE"
join_status(r, status) == status

\* pthread_join(output_thread, NULL);
Join ==
  /\ pc["main"] = "join" /\ ~exited
  /\ \A t \in join_targets : pc[t] = "returned"
  /\ exit_status' = join_status(ret, exit_status)
  /\ Goto("main", After("join"))
  /\ UNCHANGED <<cfg_vars, exited, exit_code, parse_vars, config_error, sigmask,
                 setup_vars, send_vars, rx_vars>>

\* iface_mode.destroy(&ctx);
Destroy ==
  /\ pc["main"] = "destroy" /\ ~exited
  /\ destroy_at' = <<[t \in Tasks |-> pc[t]]>>
  /\ Goto("main", After("destroy"))
  /\ UNCHANGED <<cfg_vars, exit_status, exited, exit_code, parse_vars,
                 config_error, sigmask, hw, init_status, init_conf,
                 create_vars, send_vars, rx_vars>>

\* EXIT: ... exit(exit_status);
Exit ==
  /\ pc["main"] = "EXIT" /\ ~exited
  /\ exited' = TRUE
  /\ exit_code' = exit_status
  /\ Goto("main", "exited")
  /\ UNCHANGED <<cfg_vars, exit_status, parse_vars, config_error, sigmask,
                 setup_vars, send_vars, rx_vars>>

(* ------------------------- Writer/Mode Task ---------------------------- *)

\* Threads inside g3plc_send(), and threads running the receive callback.
InSend == {t \in Tasks : pc[t] \in {"send_tx", "send_wait", "send_cb"}}
InDispatch == {t \in Tasks : pc[t] \in {"dispatch", "rx_cb"}}
InCallback == {t \in Tasks : pc[t] \in {"send_cb", "rx_cb"}}

\* A call that passes sizeof(message), the terminating NUL included.
send_args_sizeof(t, c, msg) ==
  [caller |-> t, dst |-> c.dst_mac, payload |-> msg, size |-> Len(msg) + 1]

\* g3plc_send(ctx->dst_mac, message, strlen(message)) made by thread t.
send_args(t, c, msg) ==
  [caller |-> t, dst |-> c.dst_mac, payload |-> msg, size |-> Len(msg)]

\* output_thread_func() -> send-mode.c start(): calls
\* g3plc_send(ctx->dst_mac, message, strlen(message)).
Start(t) ==
  /\ pc[t] = "start" /\ ~exited
  /\ send_log' = Append(send_log, send_args(t, ctx, message))
  /\ attempts' = 0
  /\ Goto(t, "send_tx")
  /\ UNCHANGED <<cfg_vars, exit_status, exited, exit_code, parse_vars,
                 config_error, sigmask, setup_vars, ret, timer_vars,
                 rx_vars>>

\* g3plc_send(): one transmission through uart_send(); a failed write ends
\* the call, with ACKs disabled the call ends after the one transmission,
\* else the timer is started and the acknowledgment awaited.
\* When the call ends, start() takes its status in ret, prints it and
\* returns, and output_thread_func() returns NULL.
SendTx(t) ==
  /\ pc[t] = "send_tx" /\ ~exited
  /\ attempts' = attempts + 1
  /\ \E uart_ok \in BOOLEAN :
       IF ~uart_ok
       THEN ret' = "SEND_UART_FAIL" /\ Goto(t, "returned") /\ UNCHANGED timer
       ELSE IF G3PLC_NOACK \in hybrid.flags
       THEN ret' = "SEND_SUCCESS" /\ Goto(t, "returned") /\ UNCHANGED timer
       ELSE UNCHANGED ret /\ Goto(t, "send_wait") /\ timer' = "armed"
  /\ UNCHANGED <<cfg_vars, exit_status, exited, exit_code, parse_vars,
                 config_error, sigmask, setup_vars, send_log, sigalrm,
                 intercepted, rx_vars>>

\* The threads that exist and have SIGALRM unblocked.
Unblocked ==
  {t \in ThreadIds :
     ~sigmask[t] /\ (t = "main" \/ pc[t] \notin {"none", "returned"})}

\* The timer expires and raises SIGALRM for the process: a thread that has
\* it unblocked takes it at once, else it stays pending until a thread
\* accepts it.
TimerExpire ==
  /\ timer = "armed" /\ ~exited
  /\ timer' = "off"
  /\ IF Unblocked # {}
     THEN intercepted' = TRUE /\ UNCHANGED sigalrm
     ELSE sigalrm' = TRUE /\ UNCHANGED intercepted
  /\ UNCHANGED <<pc, cfg_vars, exit_status, exited, exit_code, parse_vars,
                 config_error, sigmask, setup_vars, send_log, attempts, ret,
                 rx_vars>>

\* g3plc_send(): the acknowledgment arrives, the timer is stopped and the
\* call ends.
SendAcked(t) ==
  /\ pc[t] = "send_wait" /\ ~exited
  /\ ret' = "SEND_SUCCESS"
  /\ timer' = "off"
  /\ Goto(t, "returned")
  /\ UNCHANGED <<cfg_vars, exit_status, exited, exit_code, parse_vars,
                 config_error, sigmask, setup_vars, send_log, attempts,
                 sigalrm, intercepted, rx_vars>>

\* g3plc_send(): the waiting sender takes the timer's wake-up; the frame is
\* sent again until `retrans` transmissions were made.
SendTimeout(t) ==
  /\ pc[t] = "send_wait" /\ ~exited
  /\ sigalrm
  /\ sigalrm' = FALSE
  /\ IF attempts < hybrid.retrans
     THEN UNCHANGED ret /\ Goto(t, "send_tx")
     ELSE ret' = "SEND_NOACK" /\ Goto(t, "returned")
  /\ UNCHANGED <<cfg_vars, exit_status, exited, exit_code, parse_vars,
                 config_error, sigmask, setup_vars, send_log, attempts,
                 timer, intercepted, rx_vars>>

\* g3plc_send(): the wait for the acknowledgment ends with the ACK or with
\* the timer.
SendWait(t) == SendAcked(t) \/ SendTimeout(t)

\* g3plc_send() may invoke the receive callback synchronously, in the thread
\* of its caller.
SendCallback(t) ==
  /\ pc[t] = "send_wait" /\ ~exited
  /\ hybrid.cb_recv # "NULL"
  /\ Goto(t, "send_cb")
  /\ UNCHANGED <<cfg_vars, exit_status, exited, exit_code, parse_vars,
                 config_error, sigmask, setup_vars, send_vars, rx_vars>>

\* send-mode.c cb_recv(): ignores the frame and returns.
SendCallbackReturn(t) ==
  /\ pc[t] = "send_cb" /\ ~exited
  /\ Goto(t, "send_wait")
  /\ UNCHANGED <<cfg_vars, exit_status, exited, exit_code, parse_vars,
                 config_error, sigmask, setup_vars, send_vars, rx_vars>>

(* ----------------------------- Reader Task ----------------------------- *)

\* input_thread_func(): thread_block_signals(), then uart_read_loop().
InBlockSignals(t) ==
  /\ pc[t] = "in_block_signals" /\ ~exited
  /\ sigmask' = thread_block_signals(t)
  /\ Goto(t, "read")
  /\ UNCHANGED <<cfg_vars, exit_status, exited, exit_code, parse_vars,
                 config_error, setup_vars, send_vars, rx_vars>>

\* uart_read_loop(): one byte is read and fed to g3plc_uart_putc(); the
\* byte that completes a frame hands control to config.recv_frame, which is
\* hybrid_recv_frame itself, so the dispatch runs inside the byte feed.
ReadByte(t) ==
  /\ pc[t] = "read" /\ ~exited
  /\ \E last \in BOOLEAN :
       IF last
       THEN /\ rx_state' = "FRAME_READY"
            /\ ready_frames' = ready_frames + 1
            /\ cb_count' = 0
            /\ Goto(t, "dispatch")
       ELSE /\ rx_state' = "ACCUMULATING"
            /\ UNCHANGED <<pc, ready_frames, cb_count>>
  /\ UNCHANGED <<cfg_vars, exit_status, exited, exit_code, parse_vars,
                 config_error, sigmask, setup_vars, send_vars>>

\* uart_read_loop() ends on a read error; input_thread_func() returns NULL.
ReadFail(t) ==
  /\ pc[t] = "read" /\ ~exited
  /\ Goto(t, "returned")
  /\ UNCHANGED <<cfg_vars, exit_status, exited, exit_code, parse_vars,
                 config_error, sigmask, setup_vars, send_vars, rx_vars>>

\* hybrid_recv_frame(): validates the frame; a valid frame, or any frame
\* with G3PLC_INVALID set, goes to the receive callback, else it is dropped.
Dispatch(t) ==
  /\ pc[t] = "dispatch" /\ ~exited
  /\ \E valid \in BOOLEAN :
       IF (valid \/ G3PLC_INVALID \in hybrid.flags) /\ hybrid.cb_recv # "NULL"
       THEN /\ cb_count' = cb_count + 1
            /\ Goto(t, "rx_cb")
            /\ UNCHANGED <<ready_frames, rx_state>>
       ELSE /\ ready_frames' = ready_frames - 1
            /\ rx_state' = "IDLE"
            /\ Goto(t, "read")
            /\ UNCHANGED cb_count
  /\ UNCHANGED <<cfg_vars, exit_status, exited, exit_code, parse_vars,
                 config_error, sigmask, setup_vars, send_vars>>

\* cb_recv() returns, hybrid_recv_frame() and g3plc_uart_putc() return.
RxCallbackReturn(t) ==
  /\ pc[t] = "rx_cb" /\ ~exited
  /\ ready_frames' = ready_frames - 1
  /\ rx_state' = "IDLE"
  /\ cb_count' = 0
  /\ Goto(t, "read")
  /\ UNCHANGED <<cfg_vars, exit_status, exited, exit_code, parse_vars,
                 config_error, sigmask, setup_vars, send_vars>>

(* --------------------------- specifications ---------------------------- *)

MainNext ==
  \/ GetOpt \/ EndOfOptions \/ InitializeDriver \/ ModeInit \/ BlockSignals
  \/ HybridInit \/ SioBlockSignals \/ CreateOutput \/ CreateInput
  \/ Join \/ Destroy \/ Exit

TaskNext(t) ==
  \/ Start(t) \/ SendTx(t) \/ SendWait(t) \/ SendCallback(t)
  \/ SendCallbackReturn(t)
  \/ InBlockSignals(t) \/ ReadByte(t) \/ ReadFail(t) \/ Dispatch(t)
  \/ RxCallbackReturn(t)

Next == MainNext \/ (\E t \in Tasks : TaskNext(t)) \/ TimerExpire

Spec == Init /\ [][Next]_vars

\* The main thread is scheduled as long as it can run; nothing is assumed of
\* the byte source, so the Reader Task may stay in its read for ever.
FairSpec == Spec /\ WF_vars(MainNext)

\* The Writer/Mode Task is scheduled, the receive callback returns, an
\* armed timer expires, and a sender that waits with a wake-up pending
\* takes it.
SendFairSpec ==
  /\ Spec
  /\ WF_vars(SendTx("writer"))
  /\ WF_vars(SendCallbackReturn("writer"))
  /\ WF_vars(TimerExpire)
  /\ SF_vars(SendTimeout("writer"))

(* ------------------------------- claims -------------------------------- *)

Spawned == {t \in Tasks : pc[t] # "none"}

\* C1: hybrid_init() is called only with the mode's receive callback already
\* installed in the configuration, and no task is spawned, no send is made
\* and no byte is fed or frame dispatched before it has returned.
C1_InitAfterModeBeforeTasks ==
  /\ init_conf # <<>> => init_conf[1].cb_recv = "cb_recv"
  /\ Spawned # {} => init_status # <<>>
  /\ (send_log # <<>> \/ rx_state # "IDLE" \/ InDispatch # {})
       => init_status # <<>>

C1_Witness ==
  /\ init_status = <<0>>
  /\ init_conf # <<>> /\ init_conf[1].cb_recv = "cb_recv"
  /\ Len(send_log) = 1
  /\ pc["reader"] = "rx_cb"

\* C2: while a task is alive exactly one thread has SIGALRM unmasked.
C2_ExactlyOneUnmasked ==
  (Spawned # {} /\ ~exited)
    => Cardinality({t \in ThreadIds : pc[t] # "none" /\ ~sigmask[t]}) = 1

\* C3: at most one g3plc_send() is in flight, and every call is made by the
\* Writer/Mode Task.
C3_SingleSender ==
  /\ Cardinality(InSend) <= 1
  /\ InSend \subseteq {"writer"}
  /\ \A i \in 1..Len(send_log) : send_log[i].caller = "writer"

C3_Witness ==
  /\ pc["writer"] = "send_wait"
  /\ attempts > 1
  /\ pc["reader"] = "dispatch"

\* C4: at most one frame dispatch is in flight, it runs in the Reader Task,
\* and the reassembler holds a ready frame only while it is dispatched.
C4_SingleDispatch ==
  /\ Cardinality(InDispatch) <= 1
  /\ InDispatch \subseteq {"reader"}
  /\ ready_frames <= 1
  /\ (ready_frames = 1) <=> (InDispatch # {})
  /\ (rx_state = "FRAME_READY") <=> (InDispatch # {})

C4_Witness ==
  /\ ready_frames = 1
  /\ pc["reader"] = "rx_cb"
  /\ pc["writer"] = "send_wait"

C6_DestroyAlwaysAfterTasks ==
  /\ exited => destroy_at # <<>>
  /\ destroy_at # <<>> => \A t \in Tasks : destroy_at[1][t] = "returned"

C8_SuccessAfterAnySend ==
  (exited /\ ret # "none") => exit_code = "EXIT_SUCCESS"

\* C8 (amended): whenever a send has completed and both tasks were created,
\* the process ends with the success status whatever the send returned.
C8_SuccessAfterSendBothCreated ==
  (exited /\ ret # "none" /\ create_err = 0) => exit_code = "EXIT_SUCCESS"

C8_Witness ==
  /\ exited
  /\ ret = "SEND_NOACK"
  /\ attempts = hybrid.retrans
  /\ exit_code = "EXIT_SUCCESS"

\* C9: after a malformed option value no set-up call is ever made and the
\* process does not end with the success status.
C9_ConfigErrorBeforeIO ==
  config_error => (hw = {} /\ (exited => exit_code = "EXIT_FAILURE"))

\* C10: when hybrid_init() returns anything but success the process ends
\* with a failure status and no task is spawned.
C10_InitFailureFatal ==
  (init_status # <<>> /\ init_status[1] # 0)
    => (exited /\ exit_code = "EXIT_FAILURE" /\ Spawned = {})


\* An unrecoverable I/O error has happened: the writer's send came back
\* because the UART write failed, or the reader's read loop ended.
IoError == ret = "SEND_UART_FAIL" \/ pc["reader"] = "returned"

\* C11: after an unrecoverable I/O error on the byte source or the byte sink
\* the process never ends with success: it ends with a failure status.
C11_IoErrorEndsInFailure ==
  (exited /\ IoError) => exit_code = "EXIT_FAILURE"

\* C12: each option goes to the mode's parse_option first, the common
\* handling runs exactly when the mode did not take it, and an option the
\* mode took (-T, -m) changes neither the context nor the driver
\* configuration, nor main's course.
C12_ModeOptionsFirst ==
  [][nopts' = nopts + 1 =>
       /\ handled' \in {"mode", "common"}
       /\ (handled' = "mode") <=> (opt_c'[1] \in {"T", "m"})
       /\ handled' = "mode" =>
            UNCHANGED <<ctx, hybrid, speed, pc, exit_status, exited>>
       /\ handled' = "common" => UNCHANGED <<display_time, message>>]_vars

\* A mode option was taken after a common one had changed the context.
C12_Witness ==
  /\ handled = "mode" /\ opt_c = <<"m">>
  /\ message = <<"H", "i">>
  /\ ctx.dst_mac = 4660


CliFlags ==
  (IF cli.i THEN {G3PLC_INVALID} ELSE {})
    \cup (IF cli.a THEN {G3PLC_NOACK} ELSE {})

\* C15 as stated: no flag is in the configuration before the mode's init
\* has run.
C15_NoFlagBeforeModeInit ==
  hybrid.flags # {} => "mode_init" \in hw

\* C15: the configuration is built in the order defaults, flags of the
\* command line, callback of the mode's init: the options are parsed with
\* the callback not yet installed, the init leaves the flags as the command
\* line set them, and hybrid_init gets the callback together with exactly
\* these flags.
C15_FlagsThenModeInit ==
  /\ pc["main"] = "getopt" => (hybrid.cb_recv = "NULL" /\ "mode_init" \notin hw)
  /\ hybrid.flags = CliFlags
  /\ init_conf # <<>> =>
       /\ "mode_init" \in hw
       /\ init_conf[1].cb_recv = "cb_recv"
       /\ init_conf[1].flags = CliFlags

\* hybrid_init was called with the callback and both flags of the command
\* line.
C15_Witness ==
  /\ init_conf # <<>>
  /\ init_conf[1].cb_recv = "cb_recv"
  /\ init_conf[1].flags = {G3PLC_INVALID, G3PLC_NOACK}


\* C16: from the spawning of the first task to the end of the process no
\* step changes a field of the driver configuration or of the context.
C16_ConfigFrozenAfterSpawn ==
  [][Spawned # {} => UNCHANGED <<ctx, hybrid>>]_vars

\* Both tasks run, the writer inside its send and the reader in a callback,
\* with a configuration the command line has changed.
C16_Witness ==
  /\ pc["writer"] = "send_wait" /\ pc["reader"] = "rx_cb"
  /\ ctx.dst_mac = 4660 /\ hybrid.retrans = 3


\* C17: when the creation of either task has failed, main goes on to the
\* second pthread_create at most: it never waits for the writer, and the
\* process ends with the failure status, never with success.
C17_CreateFailureFatal ==
  create_failed # {} =>
    /\ pc["main"] \in {"create_input", "exited"}
    /\ pc["main"] = "exited" => (exited /\ exit_code = "EXIT_FAILURE")
    /\ create_err # 0

\* The writer could not be created, the reader could, and the process has
\* ended.
C17_Witness ==
  /\ create_failed = {"writer"} /\ pc["reader"] # "none"
  /\ exited /\ exit_code = "EXIT_FAILURE"


\* C18: send is called at most once, by the Writer/Mode Task, and exactly
\* once by the time start has run: its destination is the configured one
\* (0xffff without -d, the 16-bit value of the last -d otherwise), its payload
\* the configured message ("Hello World!" without -m) and its size the
\* length of that message (12 without -m); start returns with the status of
\* the call taken.
C18_SingleShotSend ==
  /\ Len(send_log) <= 1
  /\ \A i \in 1..Len(send_log) :
       /\ send_log[i].caller = "writer"
       /\ send_log[i].dst = ctx.dst_mac
       /\ send_log[i].dst = IF cli.d = <<>> THEN 65535
                            ELSE to_uint16(strtol16(cli.d[1]))
       /\ send_log[i].payload = message
       /\ send_log[i].payload = IF cli.m = <<>> THEN HelloWorld ELSE cli.m[1]
       /\ send_log[i].size = Len(send_log[i].payload)
       /\ cli.m = <<>> => send_log[i].size = 12
  /\ pc["writer"] \notin {"none", "start"} => Len(send_log) = 1
  /\ pc["writer"] = "returned" => ret # "none"

\* With -d 1234 and -m Hi the one send went to 0x1234 with two bytes, and
\* start has returned.
C18_Witness ==
  /\ pc["writer"] = "returned" /\ ret # "none"
  /\ send_log = <<[caller |-> "writer", dst |-> 4660,
                   payload |-> <<"H", "i">>, size |-> 2]>>


EndsUntouched(status) ==
  /\ pc["main"] \in {"EXIT", "exited"}
  /\ exit_status = status
  /\ exited => exit_code = status
  /\ hw = {} /\ init_status = <<>> /\ Spawned = {} /\ send_log = <<>>

\* C20: with a number of positional arguments other than two, or with an
\* option the switch does not know, the process ends with the failure status
\* without serial, mode or driver initialisation and without a task; after -h
\* or -V it ends the same way with the success status.
C20_UsageErrorsBeforeSetup ==
  /\ (argc # <<>> /\ argc # <<2>>) => EndsUntouched("EXIT_FAILURE")
  /\ (opt_c # <<>> /\ opt_c[1] \in {"?", "IRQ", "CTS"})
       => EndsUntouched("EXIT_FAILURE")
  /\ (opt_c # <<>> /\ opt_c[1] \in {"h", "V"}) => EndsUntouched("EXIT_SUCCESS")

\* The process has ended in failure after an unknown option that followed a
\* valid one.
C20_Witness ==
  /\ opt_c = <<"?">> /\ cli.a
  /\ exited /\ exit_code = "EXIT_FAILURE" /\ hw = {}


====
